---- MODULE Spec2Model ----
(***************************************************************************)
(* Wave Function Collapse solver of main.py: the CompatibilityOracle, the  *)
(* Wavefunction (one possibility set per cell, global tile weights) and    *)
(* the Model's run / iterate / propagate control loop.                     *)
(*                                                                         *)
(* Co-ordinates are <<y, x>>, 0-based, as in the source.  output_size is   *)
(* <<width, height>>.  Random draws (random.random()) are existentially    *)
(* quantified inputs of the actions that make them.                        *)
(***************************************************************************)
EXTENDS Integers, Sequences, FiniteSets, TLC

\* ---------------------------------------------------------------- bounds
MaxCells == 3
MaxWeight == 1
MaxTriples == 3

\* The tile names the inputs are drawn from, in a fixed enumeration order
\* (a dict keeps insertion order, so weights.items() walks one fixed order).
TileSeq == <<"X", "Y">>

\* ------------------------------------------------------------ directions
UP == <<1, 0>>
DOWN == <<-1, 0>>
LEFT == <<0, -1>>
RIGHT == <<0, 1>>
DIRS == <<UP, DOWN, LEFT, RIGHT>>

Range(s) == {s[i] : i \in 1..Len(s)}

Tiles == Range(TileSeq)

\* "No value yet", and the two outcomes of a call: a value, or an exception.
None == <<>>
NoError == "none"
Ok(v) == [raised |-> FALSE, val |-> v]
Raise(e) == [raised |-> TRUE, exc |-> e]

\* ------------------------------------------------- CompatibilityOracle
\* check(tile1, tile2, direction): membership in the relation.
check(rel, tile1, tile2, direction) == <<tile1, tile2, direction>> \in rel

\* ------------------------------------------------------------ valid_dirs
\* Variant: the upper tests are y <= height-1 and x <= width-1.
valid_dirs_le(cur_co_ords, matrix_size) ==
    LET y == cur_co_ords[1]
        x == cur_co_ords[2]
        width == matrix_size[1]
        height == matrix_size[2]
    IN  (IF y <= height - 1 THEN <<UP>> ELSE <<>>)
        \o (IF y > 0 THEN <<DOWN>> ELSE <<>>)
        \o (IF x > 0 THEN <<LEFT>> ELSE <<>>)
        \o (IF x <= width - 1 THEN <<RIGHT>> ELSE <<>>)

\* Variant: LEFT is never appended.
valid_dirs_noleft(cur_co_ords, matrix_size) ==
    LET y == cur_co_ords[1]
        x == cur_co_ords[2]
        width == matrix_size[1]
        height == matrix_size[2]
    IN  (IF y < height - 1 THEN <<UP>> ELSE <<>>)
        \o (IF y > 0 THEN <<DOWN>> ELSE <<>>)
        \o (IF x < width - 1 THEN <<RIGHT>> ELSE <<>>)

valid_dirs(cur_co_ords, matrix_size) ==
    LET y == cur_co_ords[1]
        x == cur_co_ords[2]
        width == matrix_size[1]
        height == matrix_size[2]
    IN  (IF y < height - 1 THEN <<UP>> ELSE <<>>)
        \o (IF y > 0 THEN <<DOWN>> ELSE <<>>)
        \o (IF x > 0 THEN <<LEFT>> ELSE <<>>)
        \o (IF x < width - 1 THEN <<RIGHT>> ELSE <<>>)

\* The cells of a matrix of the given size: range(height) x range(width).
Cells(size) == (0..(size[2] - 1)) \X (0..(size[1] - 1))

\* other_co_ords = (cur_co_ords[0] + d[0], cur_co_ords[1] + d[1])
Step(c, d) == <<c[1] + d[1], c[2] + d[2]>>

\* ------------------------------------------------------------ Wavefunction
\* init_coefficient_matrix: every cell starts with set(tiles).
init_coefficient_matrix(size, tiles) == [c \in Cells(size) |-> tiles]

\* get(co_ords): the set stored at the cell.
get(matrix, c) == matrix[c]

\* The keys of the weights dict in enumeration order.
KeySeq(w) == SelectSeq(TileSeq, LAMBDA t : t \in DOMAIN w)

\* get_collapsed(co_ords): assert len(options) == 1, then the only element.
get_collapsed(matrix, c) ==
    LET options == get(matrix, c)
    IN  IF Cardinality(options) = 1
        THEN Ok(CHOOSE t \in options : TRUE)
        ELSE Raise("AssertionError")

\* Variant: a failing cell is reported as None instead of ending the call.
get_all_collapsed_lenient(matrix) ==
    Ok([c \in DOMAIN matrix |->
          IF get_collapsed(matrix, c).raised THEN None
          ELSE get_collapsed(matrix, c).val])

\* get_all_collapsed(): get_collapsed at every cell; the first failing
\* assertion ends the call.
get_all_collapsed(matrix) ==
    IF \E c \in DOMAIN matrix : get_collapsed(matrix, c).raised
    THEN Raise("AssertionError")
    ELSE Ok([c \in DOMAIN matrix |-> get_collapsed(matrix, c).val])

\* Variant: get_collapsed takes its tile with options.pop().
after_get_all_collapsed_pop(matrix) == [c \in DOMAIN matrix |-> {}]

\* The wavefunction after get_all_collapsed(): get and get_collapsed only
\* read the sets, nothing is assigned.
after_get_all_collapsed(matrix) == matrix

\* Variant: the test is len(sq) >= 1.
is_fully_collapsed_ge1(matrix) ==
    ~ \E c \in DOMAIN matrix : Cardinality(matrix[c]) >= 1

\* Variant: the test is len(sq) != 1.
is_fully_collapsed_ne1(matrix) ==
    ~ \E c \in DOMAIN matrix : Cardinality(matrix[c]) # 1

\* is_fully_collapsed(): False as soon as one cell has len(sq) > 1.
is_fully_collapsed(matrix) ==
    ~ \E c \in DOMAIN matrix : Cardinality(matrix[c]) > 1

\* Natural logarithm in units of 10^-6, for the sums of weights that occur.
LnTable == <<0, 693147, 1098612, 1386294, 1609438, 1791759, 1945910,
             2079442, 2197225, 2302585, 2397895, 2484907, 2564949,
             2639057, 2708050, 2772589, 2833213, 2890372, 2944439, 2995732>>
LnMicro(n) == LnTable[n]

RECURSIVE SumOver(_, _)
SumOver(S, f) ==
    IF S = {} THEN 0
    ELSE LET t == CHOOSE u \in S : TRUE
         IN  f[t] + SumOver(S \ {t}, f)

\* shannon_entropy(co_ords) in units of 10^-6; math.log(0) raises on an
\* empty cell.
shannon_entropy(matrix, w, c) ==
    LET options == matrix[c]
        sum_of_weights == SumOver(options, w)
        sum_of_weight_log_weights ==
            SumOver(options, [t \in options |-> w[t] * LnMicro(w[t])])
    IN  IF sum_of_weights = 0 THEN Raise("ValueError")
        ELSE Ok(LnMicro(sum_of_weights)
                  - (sum_of_weight_log_weights \div sum_of_weights))

\* collapse(co_ords) with the draw rand = floor(random.random() * total):
\* walk the (tile, weight) pairs in order, subtracting each weight, and
\* take the first tile at which the remainder is negative.
RECURSIVE Walk(_, _, _, _)
Walk(pairs, w, rand_weight, chosen) ==
    IF pairs = <<>> THEN chosen
    ELSE LET tile == Head(pairs)
             rest == rand_weight - w[tile]
         IN  IF rest < 0 THEN tile ELSE Walk(Tail(pairs), w, rest, chosen)

filtered_tiles(matrix, w, c) ==
    SelectSeq(KeySeq(w), LAMBDA t : t \in matrix[c])

total_weights(matrix, w, c) == SumOver(Range(filtered_tiles(matrix, w, c)), w)

\* The values of floor(random.random() * total_weights); 0 when the total
\* is 0.
RandDraws(total) == IF total = 0 THEN {0} ELSE 0..(total - 1)

\* Variant: the cells of a row are one shared set, so the whole row of c
\* becomes the chosen tile.
collapse_row(matrix, w, c, rand) ==
    LET filtered == filtered_tiles(matrix, w, c)
    IN  IF filtered = <<>> THEN Raise("IndexError")
        ELSE Ok([k \in DOMAIN matrix |->
                    IF k[1] = c[1]
                    THEN {Walk(filtered, w, rand, filtered[1])}
                    ELSE matrix[k]])

\* collapse(co_ords): the cell becomes set([chosen]); filtered[0][0] of an
\* empty list raises.
collapse(matrix, w, c, rand) ==
    LET filtered == filtered_tiles(matrix, w, c)
    IN  IF filtered = <<>> THEN Raise("IndexError")
        ELSE Ok([matrix EXCEPT ![c] = {Walk(filtered, w, rand, filtered[1])}])

\* Variant: the cell is rebuilt from all tiles but the forbidden one.
constrain_rebuild(matrix, c, forbidden_tile) ==
    Ok([matrix EXCEPT ![c] = Tiles \ {forbidden_tile}])

\* constrain(co_ords, forbidden_tile): set.remove raises on an absent tile.
constrain(matrix, c, forbidden_tile) ==
    IF forbidden_tile \in matrix[c]
    THEN Ok([matrix EXCEPT ![c] = @ \ {forbidden_tile}])
    ELSE Raise("KeyError")

\* ------------------------------------------------------------------ Model
\* min_entropy_co_ords(): the co-ordinates the scan can return.  Cells of
\* size 1 are skipped; shannon_entropy of an empty cell raises.  Each
\* entropy is lowered by an independent draw random.random() / 1000 from
\* [0, 0.001), so a cell can come out lowest exactly when its entropy is
\* less than 0.001 above every other scanned cell's; with nothing scanned
\* the default (0, 0) is returned.
NoiseMicro == 1000

\* Variant: collapsed cells are not skipped.
min_entropy_co_ords_noskip(matrix, w, size) ==
    LET scanned == Cells(size)
    IN  IF \E c \in scanned : shannon_entropy(matrix, w, c).raised
        THEN Raise("ValueError")
        ELSE Ok({c \in scanned : \A o \in scanned :
                   shannon_entropy(matrix, w, c).val
                     - shannon_entropy(matrix, w, o).val < NoiseMicro})

min_entropy_co_ords(matrix, w, size) ==
    LET scanned == {c \in Cells(size) : Cardinality(get(matrix, c)) # 1}
    IN  IF \E c \in scanned : shannon_entropy(matrix, w, c).raised
        THEN Raise("ValueError")
        ELSE IF scanned = {} THEN Ok({<<0, 0>>})
        ELSE Ok({c \in scanned : \A o \in scanned :
                   shannon_entropy(matrix, w, c).val
                     - shannon_entropy(matrix, w, o).val < NoiseMicro})

\* Variant: a removed tile's cell is not pushed on the stack.
RECURSIVE VisitTiles_nopush(_, _, _, _, _, _)
VisitTiles_nopush(sofar, rel, cur_possible_tiles, other_co_ords, d, todo) ==
    LET Visit(st) ==
            IF st.raised \/ todo = {} THEN st
            ELSE LET other_tile == CHOOSE t \in todo : TRUE
                     other_tile_is_possible ==
                         \E cur_tile \in cur_possible_tiles :
                             check(rel, cur_tile, other_tile, d)
                     constrained ==
                         constrain(st.val.m, other_co_ords, other_tile)
                     next == IF other_tile_is_possible THEN st
                             ELSE IF constrained.raised THEN constrained
                             ELSE Ok([m |-> constrained.val, s |-> st.val.s])
                 IN  VisitTiles_nopush(next, rel, cur_possible_tiles,
                                       other_co_ords, d, todo \ {other_tile})
    IN  CHOOSE r \in {Visit(st) : st \in {sofar}} : TRUE

\* Variant: a tile stays only if every tile of the current cell allows it
\* (all() where the code has any()).
RECURSIVE VisitTiles_all(_, _, _, _, _, _)
VisitTiles_all(sofar, rel, cur_possible_tiles, other_co_ords, d, todo) ==
    LET Visit(st) ==
            IF st.raised \/ todo = {} THEN st
            ELSE LET other_tile == CHOOSE t \in todo : TRUE
                     other_tile_is_possible ==
                         \A cur_tile \in cur_possible_tiles :
                             check(rel, cur_tile, other_tile, d)
                     constrained ==
                         constrain(st.val.m, other_co_ords, other_tile)
                     next == IF other_tile_is_possible THEN st
                             ELSE IF constrained.raised THEN constrained
                             ELSE Ok([m |-> constrained.val,
                                      s |-> Append(st.val.s, other_co_ords)])
                 IN  VisitTiles_all(next, rel, cur_possible_tiles,
                                    other_co_ords, d, todo \ {other_tile})
    IN  CHOOSE r \in {Visit(st) : st \in {sofar}} : TRUE

\* The body of "for other_tile in set(get(other_co_ords))" for the tiles
\* still to visit: a tile with no compatible tile at the current cell is
\* constrained away and the neighbour is pushed, once per removed tile.
\* (The state so far is bound once per call, as st, before it is used.)
RECURSIVE VisitTiles(_, _, _, _, _, _)
VisitTiles(sofar, rel, cur_possible_tiles, other_co_ords, d, todo) ==
    LET Visit(st) ==
            IF st.raised \/ todo = {} THEN st
            ELSE LET other_tile == CHOOSE t \in todo : TRUE
                     other_tile_is_possible ==
                         \E cur_tile \in cur_possible_tiles :
                             check(rel, cur_tile, other_tile, d)
                     constrained ==
                         constrain(st.val.m, other_co_ords, other_tile)
                     next == IF other_tile_is_possible THEN st
                             ELSE IF constrained.raised THEN constrained
                             ELSE Ok([m |-> constrained.val,
                                      s |-> Append(st.val.s, other_co_ords)])
                 IN  VisitTiles(next, rel, cur_possible_tiles, other_co_ords,
                                d, todo \ {other_tile})
    IN  CHOOSE r \in {Visit(st) : st \in {sofar}} : TRUE

\* Variant: the tiles visited at the neighbour are all the tiles there are,
\* not the copy of the neighbour's set.
RECURSIVE VisitDirs_alltiles(_, _, _, _, _)
VisitDirs_alltiles(sofar, rel, size, cur_co_ords, dirs) ==
    LET Visit(st) ==
            IF st.raised \/ dirs = <<>> THEN st
            ELSE LET d == Head(dirs)
                     other_co_ords == Step(cur_co_ords, d)
                     after == VisitTiles(st, rel, get(st.val.m, cur_co_ords),
                                         other_co_ords, d, Tiles)
                 IN  VisitDirs_alltiles(after, rel, size, cur_co_ords,
                                        Tail(dirs))
    IN  CHOOSE r \in {Visit(st) : st \in {sofar}} : TRUE

\* Variant: only the first valid direction is visited.
VisitDirs_first(sofar, rel, size, cur_co_ords, dirs) ==
    LET Visit(st) ==
            IF st.raised \/ dirs = <<>> THEN st
            ELSE LET d == Head(dirs)
                     other_co_ords == Step(cur_co_ords, d)
                 IN  VisitTiles(st, rel, get(st.val.m, cur_co_ords),
                                other_co_ords, d, get(st.val.m, other_co_ords))
    IN  CHOOSE r \in {Visit(st) : st \in {sofar}} : TRUE

\* The body of "for d in valid_dirs(cur_co_ords, output_size)".
RECURSIVE VisitDirs(_, _, _, _, _)
VisitDirs(sofar, rel, size, cur_co_ords, dirs) ==
    LET Visit(st) ==
            IF st.raised \/ dirs = <<>> THEN st
            ELSE LET d == Head(dirs)
                     other_co_ords == Step(cur_co_ords, d)
                     after == VisitTiles(st, rel, get(st.val.m, cur_co_ords),
                                         other_co_ords, d,
                                         get(st.val.m, other_co_ords))
                 IN  VisitDirs(after, rel, size, cur_co_ords, Tail(dirs))
    IN  CHOOSE r \in {Visit(st) : st \in {sofar}} : TRUE

\* Variant: the co-ordinate is read with stack[-1] and left on the stack.
propagate_step_peek(matrix, stk, rel, size) ==
    LET cur_co_ords == stk[Len(stk)]
    IN  VisitDirs(Ok([m |-> matrix, s |-> stk]), rel, size, cur_co_ords,
                  valid_dirs(cur_co_ords, size))

\* Variant: the co-ordinate is popped and no neighbour is visited.
propagate_step_skip(matrix, stk, rel, size) ==
    Ok([m |-> matrix, s |-> SubSeq(stk, 1, Len(stk) - 1)])

\* One turn of propagate's while loop: pop the last co-ordinate, then visit
\* every valid direction.  The result is the matrix m and the stack s.
propagate_step(matrix, stk, rel, size) ==
    LET cur_co_ords == stk[Len(stk)]
        popped == SubSeq(stk, 1, Len(stk) - 1)
    IN  VisitDirs(Ok([m |-> matrix, s |-> popped]), rel, size, cur_co_ords,
                  valid_dirs(cur_co_ords, size))

\* Variant: position i leaves the stack but the co-ordinate visited is the
\* one at the top, so a pending co-ordinate can be dropped unvisited.
propagate_step_at_top(matrix, stk, i, rel, size) ==
    LET cur_co_ords == stk[Len(stk)]
        popped == SubSeq(stk, 1, i - 1) \o SubSeq(stk, i + 1, Len(stk))
    IN  VisitDirs(Ok([m |-> matrix, s |-> popped]), rel, size, cur_co_ords,
                  valid_dirs(cur_co_ords, size))

\* The same turn with the co-ordinate taken from position i of the stack
\* (stack.pop(i - 1) in Python's numbering) in place of stack.pop().
propagate_step_at(matrix, stk, i, rel, size) ==
    LET cur_co_ords == stk[i]
        popped == SubSeq(stk, 1, i - 1) \o SubSeq(stk, i + 1, Len(stk))
    IN  VisitDirs(Ok([m |-> matrix, s |-> popped]), rel, size, cur_co_ords,
                  valid_dirs(cur_co_ords, size))

\* The while loop of propagate() run until the stack is empty.
RECURSIVE propagate_loop(_, _, _)
propagate_loop(sofar, rel, size) ==
    LET Turn(st) ==
            IF st.raised \/ st.val.s = <<>> THEN st
            ELSE propagate_loop(propagate_step(st.val.m, st.val.s, rel, size),
                                rel, size)
    IN  CHOOSE r \in {Turn(st) : st \in {sofar}} : TRUE

\* propagate(co_ords): stack = [co_ords], then the loop; the result is the
\* matrix it leaves.
propagate(matrix, origin, rel, size) ==
    LET done == propagate_loop(Ok([m |-> matrix, s |-> <<origin>>]), rel, size)
    IN  IF done.raised THEN done ELSE Ok(done.val.m)

\* ------------------------------------------------------------------ state
VARIABLES
    output_size,        \* Model.output_size, <<width, height>>
    weights,            \* Wavefunction.weights
    data,               \* CompatibilityOracle.data
    coefficient_matrix, \* Wavefunction.coefficient_matrix
    pc,                 \* where run() is
    co_ords,            \* iterate's co_ords
    stack,              \* propagate's stack
    output,             \* what run() returned
    reread,             \* what a further get_all_collapsed() returned
    iters,              \* number of iterate() calls so far
    err,                \* the exception that ended run()
    entry               \* coefficient_matrix as the propagate() in progress
                        \* found it (coefficient_matrix itself outside one)

vars == <<output_size, weights, data, coefficient_matrix, pc, co_ords,
          stack, output, reread, iters, err, entry>>

inputs == <<output_size, weights, data>>

\* All subsets of S with at most k elements.
RECURSIVE SubsetsUpTo(_, _)
SubsetsUpTo(S, k) ==
    IF k = 0 THEN {{}}
    ELSE LET P == SubsetsUpTo(S, k - 1)
         IN  P \cup {p \cup {e} : p \in P, e \in S}

\* The weights mappings: one positive weight for each of the first k >= 1
\* tiles.
WeightMaps ==
    UNION {[Range(SubSeq(TileSeq, 1, k)) -> 1..MaxWeight] : k \in 1..Len(TileSeq)}

\* The output sizes <<width, height>> with at most MaxCells cells.
Sizes ==
    {sz \in (1..MaxCells) \X (1..MaxCells) : sz[1] * sz[2] <= MaxCells}

\* The directions valid at some cell of a matrix of the given size: the
\* oracle is only ever asked about these.
DirsUsed(size) ==
    UNION {Range(valid_dirs(c, size)) : c \in Cells(size)}

\* Model(output_size, weights, compatibility_oracle): Wavefunction.mk builds
\* the matrix from list(weights.keys()).  The relation is any set of at most
\* MaxTriples triples over the tiles and the directions in use.
Init ==
    /\ output_size \in Sizes
    /\ weights \in WeightMaps
    /\ data \in SubsetsUpTo(
                   (DOMAIN weights) \X (DOMAIN weights) \X DirsUsed(output_size),
                   MaxTriples)
    /\ coefficient_matrix = init_coefficient_matrix(output_size, DOMAIN weights)
    /\ pc = "run"
    /\ co_ords = None
    /\ stack = <<>>
    /\ output = None
    /\ reread = None
    /\ iters = 0
    /\ err = NoError
    /\ entry = coefficient_matrix

\* run(): the loop test failed to end the loop, so iterate() starts with
\* min_entropy_co_ords().  (The count of calls, iters, is capped one above
\* the number of cells to keep it finite.)
MinEntropyCoOrds ==
    /\ pc = "run"
    /\ ~ is_fully_collapsed(coefficient_matrix)
    /\ iters <= Cardinality(DOMAIN coefficient_matrix)
    /\ \E found \in {min_entropy_co_ords(coefficient_matrix, weights,
                                         output_size)} :
           IF found.raised
           THEN /\ pc' = "aborted"
                /\ err' = found.exc
                /\ UNCHANGED co_ords
           ELSE /\ co_ords' \in found.val
                /\ pc' = "collapse"
                /\ UNCHANGED err
    /\ iters' = iters + 1
    /\ UNCHANGED <<inputs, coefficient_matrix, stack, output, reread, entry>>

\* iterate(): wavefunction.collapse(co_ords), then propagate(co_ords) starts
\* with stack = [co_ords].
Collapse ==
    /\ pc = "collapse"
    /\ \E rand \in RandDraws(total_weights(coefficient_matrix, weights, co_ords)) :
         \E done \in {collapse(coefficient_matrix, weights, co_ords, rand)} :
           IF done.raised
           THEN /\ pc' = "aborted"
                /\ err' = done.exc
                /\ UNCHANGED <<coefficient_matrix, stack, entry>>
           ELSE /\ coefficient_matrix' = done.val
                /\ entry' = done.val
                /\ stack' = <<co_ords>>
                /\ pc' = "propagate"
                /\ UNCHANGED err
    /\ UNCHANGED <<inputs, co_ords, output, reread, iters>>

\* propagate(): one turn of "while len(stack) > 0".
PropagateStep ==
    /\ pc = "propagate"
    /\ Len(stack) > 0
    /\ \E st \in {propagate_step(coefficient_matrix, stack, data, output_size)} :
           IF st.raised
           THEN /\ pc' = "aborted"
                /\ err' = st.exc
                /\ UNCHANGED <<coefficient_matrix, stack>>
           ELSE /\ coefficient_matrix' = st.val.m
                /\ stack' = st.val.s
                /\ UNCHANGED <<pc, err>>
    /\ UNCHANGED <<inputs, co_ords, output, reread, iters, entry>>

\* propagate() returns when the stack is empty; iterate() returns to run().
PropagateReturn ==
    /\ pc = "propagate"
    /\ Len(stack) = 0
    /\ pc' = "run"
    /\ entry' = coefficient_matrix
    /\ UNCHANGED <<inputs, coefficient_matrix, co_ords, stack, output, reread,
                   iters, err>>

\* run(): the loop ends and get_all_collapsed() is returned, or one of its
\* assertions fails.
GetAllCollapsed ==
    /\ pc = "run"
    /\ is_fully_collapsed(coefficient_matrix)
    /\ \E got \in {get_all_collapsed(coefficient_matrix)} :
           IF got.raised
           THEN /\ pc' = "aborted"
                /\ err' = got.exc
                /\ UNCHANGED output
           ELSE /\ output' = got.val
                /\ pc' = "returned"
                /\ UNCHANGED err
    /\ coefficient_matrix' = after_get_all_collapsed(coefficient_matrix)
    /\ UNCHANGED <<inputs, co_ords, stack, reread, iters, entry>>

\* A further get_all_collapsed() on the wavefunction after run() returned.
ReadAgain ==
    /\ pc = "returned"
    /\ \E got \in {get_all_collapsed(coefficient_matrix)} :
           IF got.raised
           THEN /\ pc' = "aborted"
                /\ err' = got.exc
                /\ UNCHANGED reread
           ELSE /\ reread' = got.val
                /\ UNCHANGED <<pc, err>>
    /\ coefficient_matrix' = after_get_all_collapsed(coefficient_matrix)
    /\ UNCHANGED <<inputs, co_ords, stack, output, iters, entry>>

Next ==
    \/ MinEntropyCoOrds
    \/ Collapse
    \/ PropagateStep
    \/ PropagateReturn
    \/ GetAllCollapsed
    \/ ReadAgain

Spec == Init /\ [][Next]_vars

\* The interpreter runs the single thread until run() returns or raises.
FairSpec == Spec /\ WF_vars(Next)

\* propagate() with the pending co-ordinates taken in any order: one turn
\* of the loop for a co-ordinate at any position of the stack.
PropagateStepAnyOrder ==
    /\ pc = "propagate"
    /\ Len(stack) > 0
    /\ \E i \in 1..Len(stack) :
         \E st \in {propagate_step_at(coefficient_matrix, stack, i, data,
                                      output_size)} :
           IF st.raised
           THEN /\ pc' = "aborted"
                /\ err' = st.exc
                /\ UNCHANGED <<coefficient_matrix, stack>>
           ELSE /\ coefficient_matrix' = st.val.m
                /\ stack' = st.val.s
                /\ UNCHANGED <<pc, err>>
    /\ UNCHANGED <<inputs, co_ords, output, reread, iters, entry>>

NextAnyOrder ==
    \/ MinEntropyCoOrds
    \/ Collapse
    \/ PropagateStepAnyOrder
    \/ PropagateReturn
    \/ GetAllCollapsed
    \/ ReadAgain

\* run() with a propagate() whose worklist discipline is left open.
AnyOrderSpec == Init /\ [][NextAnyOrder]_vars

\* ================================================================ claims
NumCells == Cardinality(Cells(output_size))
TotalTiles == SumOver(Cells(output_size),
                      [c \in Cells(output_size) |->
                          Cardinality(coefficient_matrix[c])])
NoEmptyCell == \A c \in Cells(output_size) : coefficient_matrix[c] # {}
Finished == pc \in {"returned", "aborted"}

\* C1: whenever run() has returned a grid, every cell C and every direction D
\* valid at C have (grid[C], grid[neighbour of C in D], D) in the
\* compatibility relation.
C1_LocalConsistency ==
    pc = "returned" =>
        \A c \in Cells(output_size) :
            \A d \in Range(valid_dirs(c, output_size)) :
                check(data, output[c], output[Step(c, d)], d)

\* C2: propagate terminates: no run stays inside its loop for ever, and
\* every turn of the loop that pushes k co-ordinates removes exactly k tiles
\* (the stack loses the popped co-ordinate and gains one entry per removed
\* tile).
C2_PropagateTerminates ==
    /\ [][(pc = "propagate" /\ pc' = "propagate") =>
             Len(stack') - (Len(stack) - 1) = TotalTiles - TotalTiles']_vars
    /\ []<>(pc # "propagate")

\* C2 witness: a propagation that removed tiles from a cell other than its
\* origin has emptied its stack.
C2_Witness ==
    /\ pc = "propagate"
    /\ stack = <<>>
    /\ \E c \in Cells(output_size) :
           c # co_ords /\ coefficient_matrix[c] # DOMAIN weights

\* C3: run() terminates, and while no cell is empty the number of iterate()
\* calls made so far is at most width * height.
C3_RunTerminates ==
    /\ [](NoEmptyCell => iters <= NumCells)
    /\ <>Finished

\* C3 witness: a run over at least two cells returned after exactly
\* width * height collapse steps.
C3_Witness ==
    pc = "returned" /\ NumCells >= 2 /\ iters = NumCells

\* C4: in every step of a run each cell's possibility set after the step is
\* a subset of its set before the step.
C4_Monotone ==
    [][\A c \in Cells(output_size) :
           coefficient_matrix'[c] \subseteq coefficient_matrix[c]]_vars

\* C4 witness: a run that collapsed one cell and constrained another has
\* returned.
C4_Witness ==
    /\ pc = "returned"
    /\ iters >= 1
    /\ iters < NumCells
    /\ Cardinality(DOMAIN weights) >= 2

\* C5: is_fully_collapsed() is true exactly when every cell's possibility
\* set has exactly one element.
C5_FullyCollapsedIff ==
    is_fully_collapsed(coefficient_matrix)
        <=> \A c \in Cells(output_size) :
                Cardinality(coefficient_matrix[c]) = 1

\* C6: a grid returned by run() holds, at every cell, the only element of
\* that cell's possibility set; a run that aborted returned nothing.
C6_ReturnsOnlyCollapsed ==
    /\ pc = "returned" =>
           \A c \in Cells(output_size) : coefficient_matrix[c] = {output[c]}
    /\ pc = "aborted" => output = None

\* C6 witness: a run over at least two cells returned after a collapse.
C6_Witness ==
    pc = "returned" /\ NumCells >= 2 /\ iters >= 1 /\ output # None

\* C7: on the 1x2 grid with relation {(X, Y, RIGHT), (Y, X, LEFT)} and
\* weights {X: 1, Y: 1}, a grid returned by run() is (X, Y) or (Y, X).
Scenario1x2 ==
    /\ output_size = <<2, 1>>
    /\ weights = [t \in {"X", "Y"} |-> 1]
    /\ data = {<<"X", "Y", RIGHT>>, <<"Y", "X", LEFT>>}

C8_SingleTile ==
    Cardinality(DOMAIN weights) = 1 =>
        /\ iters = 0
        /\ stack = <<>>
        /\ coefficient_matrix
              = init_coefficient_matrix(output_size, DOMAIN weights)
        /\ pc \in {"run", "returned"}
        /\ pc = "run" => /\ is_fully_collapsed(coefficient_matrix)
                         /\ ~ get_all_collapsed(coefficient_matrix).raised
        /\ pc = "returned" =>
               \A c \in Cells(output_size) : {output[c]} = DOMAIN weights

\* C8 witness: a one-tile run over at least two cells returned.
C8_Witness ==
    Cardinality(DOMAIN weights) = 1 /\ pc = "returned" /\ NumCells >= 2

\* C9: the co-ordinates min_entropy_co_ords returned to iterate name a cell
\* whose possibility set does not have size 1.
C9_MinEntropyNotCollapsed ==
    pc = "collapse" => Cardinality(coefficient_matrix[co_ords]) # 1

\* C9 witness: min_entropy_co_ords returned while some cell was already
\* collapsed.
C9_Witness ==
    /\ pc = "collapse"
    /\ \E c \in Cells(output_size) : Cardinality(coefficient_matrix[c]) = 1

\* C10: a get_all_collapsed() call leaves every possibility set and the
\* weights unchanged, and a second call after a completed run returns the
\* grid the first one returned.
C10_IdempotentRead ==
    [][(pc = "returned" \/ pc' = "returned") =>
          /\ coefficient_matrix' = coefficient_matrix
          /\ weights' = weights
          /\ pc' = "returned"
          /\ reread' # None => reread' = output']_vars

\* C10 witness: get_all_collapsed() was called again after a run with at
\* least one collapse returned.
C10_Witness ==
    pc = "returned" /\ reread # None /\ iters >= 1

\* ------------------------------------------------- propagate's fixed point
\* The loop of propagate() has just ended: it returns next.
PropagateReturns == pc = "propagate" /\ stack = <<>>

\* The domino of cell c and its neighbour in direction d: every tile still
\* possible at the neighbour has a compatible tile still possible at c.
Supported(matrix, c, d) ==
    \A t \in get(matrix, Step(c, d)) :
        \E ct \in get(matrix, c) : check(data, ct, t, d)

\* Every domino of the grid is supported.
FixedPoint(matrix) ==
    \A c \in Cells(output_size) :
        \A d \in Range(valid_dirs(c, output_size)) : Supported(matrix, c, d)

\* The cells propagate() visited in this call: origin, and the cells that
\* lost a tile since the call began.
Touched ==
    {co_ords} \cup {c \in Cells(output_size) :
                        get(coefficient_matrix, c) # get(entry, c)}

\* C11 as stated: when propagate(origin) returns, every domino of the
\* grid is supported (the wavefunction is at a fixed point).
C11_FixedPointEveryDomino ==
    PropagateReturns => FixedPoint(coefficient_matrix)

\* C11 amended: when propagate(origin) returns, every domino of the grid is
\* supported provided that, when the call began, every domino of a cell
\* other than origin was supported.
C11_FixedPointPreserved ==
    (/\ PropagateReturns
     /\ \A c \in Cells(output_size) \ {co_ords} :
            \A d \in Range(valid_dirs(c, output_size)) : Supported(entry, c, d))
    => FixedPoint(coefficient_matrix)

\* C11 witness: such a call removed a tile and returns.
C11_Witness ==
    /\ PropagateReturns
    /\ \A c \in Cells(output_size) \ {co_ords} :
           \A d \in Range(valid_dirs(c, output_size)) : Supported(entry, c, d)
    /\ entry # coefficient_matrix
    /\ NoEmptyCell

\* C12: whatever the order in which pending co-ordinates are taken from the
\* worklist, propagate(origin) ends on the wavefunction that the code's
\* order (last in, first out) ends on from the same wavefunction and origin.
C12_Confluence ==
    PropagateReturns =>
        \E lifo \in {propagate(entry, co_ords, data, output_size)} :
            ~ lifo.raised /\ coefficient_matrix = lifo.val

\* C12 witness: a call in which two cells besides origin lost a tile, so
\* that two different co-ordinates were pending at once, returns.
C12_Witness ==
    /\ PropagateReturns
    /\ Cardinality(Touched \ {co_ords}) >= 2
    /\ NoEmptyCell

\* C13: during run() propagate calls constrain(co_ords, tile) only with a
\* tile that is in the cell at that moment: no turn of its loop raises, and
\* run() never ends with KeyError.
C13_NoKeyError ==
    /\ err # "KeyError"
    /\ (pc = "propagate" /\ stack # <<>>) =>
           ~ propagate_step(coefficient_matrix, stack, data, output_size).raised

\* C13 witness: constrain has removed a tile in this call and co-ordinates
\* are still pending.
C13_Witness ==
    /\ pc = "propagate"
    /\ Len(stack) >= 2
    /\ entry # coefficient_matrix

\* C14: for every cell <<y, x>> of the grid and every direction <<dy, dx>>
\* that valid_dirs returns for it, 0 <= y+dy < height and 0 <= x+dx < width;
\* the matrix has exactly the grid's cells and only cells of the grid are
\* ever pending in propagate.
C14_NeighboursInGrid ==
    /\ \A c \in Cells(output_size) :
           \A d \in Range(valid_dirs(c, output_size)) :
               /\ 0 <= c[1] + d[1] /\ c[1] + d[1] < output_size[2]
               /\ 0 <= c[2] + d[2] /\ c[2] + d[2] < output_size[1]
               /\ Step(c, d) = <<c[1] + d[1], c[2] + d[2]>>
    /\ DOMAIN coefficient_matrix = Cells(output_size)
    /\ Range(stack) \subseteq Cells(output_size)

\* C14 witness: propagate started at a cell with a neighbour on either side
\* and an edge of the grid on the other two, and a neighbour is pending.
C14_Witness ==
    /\ pc = "propagate"
    /\ Len(valid_dirs(co_ords, output_size)) = 2
    /\ \E c \in Range(stack) : c # co_ords

\* C15: during run() collapse is invoked only on a cell with a tile left and
\* shannon_entropy is evaluated only on cells with a tile left: neither
\* IndexError nor ValueError ends run(), the cell handed to collapse is not
\* empty, and when the loop goes on to min_entropy_co_ords no cell is empty.
C15_NonEmptyArguments ==
    /\ err \notin {"IndexError", "ValueError"}
    /\ pc = "collapse" => get(coefficient_matrix, co_ords) # {}
    /\ (pc = "run" /\ ~ is_fully_collapsed(coefficient_matrix)) =>
           /\ NoEmptyCell
           /\ ~ min_entropy_co_ords(coefficient_matrix, weights,
                                    output_size).raised

\* C15 witness: collapse is about to be called after an earlier propagate
\* that removed tiles.
C15_Witness ==
    /\ pc = "collapse"
    /\ iters >= 2
    /\ \E c \in Cells(output_size) \ {co_ords} :
           Cardinality(get(coefficient_matrix, c)) = 1

\* C16: collapse(co_ords) on a cell S with a tile left makes that cell {t}
\* for some t in S and leaves every other cell unchanged; constrain(c, t)
\* changes only the cell at c, so a turn of propagate's loop changes only
\* neighbours of the popped cell, each by the tiles it was pushed for; and
\* no step of run() changes weights.
C16_Frame ==
    [][/\ weights' = weights
       /\ (pc = "collapse" /\ pc' = "propagate") =>
              \E t \in get(coefficient_matrix, co_ords) :
                  coefficient_matrix' =
                      [coefficient_matrix EXCEPT ![co_ords] = {t}]
       /\ \A c \in Cells(output_size) :
              \A t \in get(coefficient_matrix, c) :
                  constrain(coefficient_matrix, c, t) =
                      Ok([k \in Cells(output_size) |->
                             IF k = c THEN get(coefficient_matrix, c) \ {t}
                             ELSE get(coefficient_matrix, k)])
       /\ (pc = "propagate" /\ pc' = "propagate") =>
              \A c \in Cells(output_size) :
                  get(coefficient_matrix', c) # get(coefficient_matrix, c) =>
                      \E d \in Range(valid_dirs(stack[Len(stack)], output_size)) :
                          c = Step(stack[Len(stack)], d)
      ]_vars

\* C16 witness: collapse has just acted on a cell of a grid with other cells
\* and two tiles to choose from.
C16_Witness ==
    /\ pc = "propagate"
    /\ stack = <<co_ords>>
    /\ entry = coefficient_matrix
    /\ NumCells >= 2
    /\ Cardinality(DOMAIN weights) >= 2
    /\ iters >= 2

\* Every cell is empty.
AllEmpty == \A c \in Cells(output_size) : coefficient_matrix[c] = {}

\* C17: each time propagate returns during run(), either no cell is empty
\* or every cell is empty; so with an empty cell the loop test ends the loop
\* (no further collapse), get_all_collapsed fails its assertion, and run()
\* never returns a grid.
C17_AllOrNothing ==
    /\ (PropagateReturns \/ pc = "run") => (NoEmptyCell \/ AllEmpty)
    /\ (pc = "run" /\ ~ NoEmptyCell) =>
           /\ is_fully_collapsed(coefficient_matrix)
           /\ get_all_collapsed(coefficient_matrix) = Raise("AssertionError")
    /\ ~ NoEmptyCell => pc \in {"propagate", "run", "aborted"}
    /\ pc = "aborted" => (err = "AssertionError" /\ AllEmpty)

\* C17 witness: run() aborted on a grid of three cells after a propagate
\* that emptied every cell.
C17_Witness ==
    /\ pc = "aborted"
    /\ AllEmpty
    /\ NumCells = 3
    /\ iters = 1

\* C18: when propagate(origin) returns, for every cell C that is origin or
\* lost a tile during the call, and every direction D valid at C with
\* neighbour N, each tile left at N is compatible in direction D with some
\* tile left at C.
C18_TouchedSupported ==
    PropagateReturns =>
        \A c \in Touched :
            \A d \in Range(valid_dirs(c, output_size)) :
                Supported(coefficient_matrix, c, d)

\* C18 witness: a call returns with no cell empty, a cell besides origin
\* having lost a tile and another cell never visited.
C18_Witness ==
    /\ PropagateReturns
    /\ NoEmptyCell
    /\ Touched # {co_ords}
    /\ Touched # Cells(output_size)
====
